---------------------------- MODULE Spec2Model ----------------------------
(***************************************************************************)
(* A model of the dialog/chat view of the administrative console:          *)
(*   - Dialog      (src/dialog.tsx): account list, account selection,      *)
(*                 message-count polling, conversation list;               *)
(*   - DialogPage  (src/dialogPage.tsx): message history, sending a        *)
(*                 message with its delayed re-fetch, the AI toggle.       *)
(*                                                                         *)
(* React runs an event handler or a promise continuation, re-renders and   *)
(* runs the effects whose dependencies changed (clean-up first) before the *)
(* next handler: each action below is one such handler together with the   *)
(* render and the effects it causes.  A request in flight carries the      *)
(* values its closure captured when it was issued.  The backends are       *)
(* external: every response is a nondeterministic choice.                  *)
(***************************************************************************)
EXTENDS Integers, Sequences, FiniteSets, Bags, TLC

VARIABLES
    \* ---- Dialog (src/dialog.tsx) ----
    mounted,                \* the Dialog component is mounted
    wxAccountList,          \* useState<WxAccount[]>
    accountsReq,            \* getWxAccountListApi() in flight
    isLoading,              \* Dialog.isLoading
    selectedAccount,        \* useState<WxAccount | null>
    messageCount,           \* useState<string>
    pollingInterval,        \* useRef: id of the last interval timer, 0 = null
    timers,                 \* the active setInterval timers
    polls,                  \* getUserMsgCountApi requests in flight (bag)
    convReqs,               \* getConversations Promise.all in flight (bag)
    isLoadingConversations, \* Dialog.isLoadingConversations
    conversations,          \* useState<RoomListMessage[]>
    selectedConversation,   \* useState<RoomListMessage | null>
    \* ---- DialogPage (src/dialogPage.tsx) ----
    messages,               \* useState<Message[]>
    pageIsLoading,          \* DialogPage.isLoading
    isFetchingHistory,      \* DialogPage.isFetchingHistory
    newMessage,             \* DialogPage.newMessage
    isAIEnabled,            \* DialogPage.isAIEnabled
    isSending,              \* DialogPage.isSending
    enabledRoomsRef,        \* useRef<string[]>
    loads,                  \* loadMessages invocations in flight (bag)
    sends,                  \* sendChatMessageApi requests in flight (bag)
    refetchTimers,          \* pending setTimeout callbacks (bag)
    refetches,              \* post-send re-fetches in flight (bag)
    toggles,                \* postAIReplyListApi requests in flight (bag)
    \* ---- observation ----
    sendStats,              \* what happened to the sends so far
    toggleSeq,              \* the run of toggle clicks in progress
    messagesFor,            \* the request that produced the shown messages
    last,                   \* the handler that ran last, with its inputs
    \* ---- the workflow API: the AI-reply lists it stores ----
    aiReplyList,            \* account name -> the stored list of room ids
    \* ---- App and NavBar (src/src/App.tsx, src/src/employee/employeeEdit.tsx) ----
    location,               \* the router's location.pathname
    authUser,               \* the identity provider's current user
    screen,                 \* the components App renders
    selected,               \* NavBar.selected
    isCollapsed,            \* NavBar.isCollapsed
    showLogoutDialog,       \* NavBar.showLogoutDialog
    userData,               \* NavBar.userData
    \* ---- EmployeeEdit (src/src/employee/employeeEdit.tsx) ----
    wxAccount,              \* location.state?.wxAccount
    prompt,                 \* useState('')
    promptReqs              \* getWxAccountPromptApi requests in flight (bag)

dialogVars == <<mounted, wxAccountList, accountsReq, isLoading, selectedAccount,
                messageCount, pollingInterval, timers, polls, convReqs,
                isLoadingConversations, conversations, selectedConversation>>

pageVars == <<messages, pageIsLoading, isFetchingHistory, newMessage,
              isAIEnabled, isSending, enabledRoomsRef, loads, sends,
              refetchTimers, refetches, toggles, sendStats, toggleSeq,
              messagesFor>>

serverVars == <<aiReplyList>>

appVars == <<location, authUser, screen, selected, isCollapsed, showLogoutDialog,
             userData>>

editVars == <<wxAccount, prompt, promptReqs>>

vars == <<dialogVars, pageVars, serverVars, appVars, editVars, last>>

(***************************************************************************)
(* Bounds of the model.                                                    *)
(***************************************************************************)
MaxPolls == 2        \* message-count polls in flight at once
MaxConvReqs == 1     \* getConversations calls in flight at once
MaxTimerIds == 3     \* size of the pool of timer ids
MaxRecs == 1         \* records in one response of a list endpoint
MaxPending == 2      \* requests and timeouts of DialogPage pending at once
MaxSends == 2        \* messages sent in one run
MaxPendingMerge == 1 \* requests and timeouts pending at once under SpecMerge
MaxPromptReqs == 2   \* prompt requests of EmployeeEdit in flight at once

(***************************************************************************)
(* Program constants.                                                      *)
(***************************************************************************)
PollIntervalMs == 3000
RefetchDelayMs == 2000

(***************************************************************************)
(* Values.                                                                 *)
(***************************************************************************)
NoAccount == [name |-> "", wxid |-> ""]                    \* null
Accounts == {[name |-> "A", wxid |-> "wxA"], [name |-> "B", wxid |-> "wxB"]}
AccountLists ==
    {<<>>, <<[name |-> "A", wxid |-> "wxA"]>>,
     <<[name |-> "A", wxid |-> "wxA"], [name |-> "B", wxid |-> "wxB"]>>}

Counts == {"", "1", "2"}           \* response.value of getUserMsgCountApi
Rooms == {"r1", "r2"}
DateStrings == {"09:00", "09:00:00", "10:00"}

\* new Date(s).getTime(): two spellings of one instant give one number
GetTime(s) ==
    CASE s = "09:00" -> 900
      [] s = "09:00:00" -> 900
      [] s = "10:00" -> 1000
      [] OTHER -> 0

NoConversation == [room_id |-> "", msg_datetime |-> ""]    \* null
\* the records the room-list endpoints answer with: two of them at one
\* instant, spelled differently, and a later one
ConvRecords ==
    {[room_id |-> "r1", msg_datetime |-> "09:00"],
     [room_id |-> "r2", msg_datetime |-> "09:00:00"],
     [room_id |-> "r2", msg_datetime |-> "10:00"]}

SeqsUpTo(S, n) == UNION {[1..k -> S] : k \in 0..n}
RoomListResponses == SeqsUpTo(ConvRecords, MaxRecs)

Range(s) == {s[i] : i \in 1..Len(s)}
One(x) == SetToBag({x})

(***************************************************************************)
(* Array.prototype.sort(cmp) is a stable sort: element i of the input goes *)
(* behind the elements cmp orders before it and behind the earlier         *)
(* elements cmp treats as equal to it.                                     *)
(***************************************************************************)
\* a mutant of CompareConversations: oldest first
CompareConversationsAsc(a, b) == GetTime(a.msg_datetime) - GetTime(b.msg_datetime)

\* (a, b) => new Date(b.msg_datetime).getTime() - new Date(a.msg_datetime).getTime()
CompareConversations(a, b) == GetTime(b.msg_datetime) - GetTime(a.msg_datetime)

ConversationRank(s, i) ==
    1 + Cardinality({j \in 1..Len(s) :
                        \/ CompareConversations(s[j], s[i]) < 0
                        \/ CompareConversations(s[j], s[i]) = 0 /\ j < i})

SortConversations(s) ==
    [k \in 1..Len(s) |-> s[CHOOSE i \in 1..Len(s) : ConversationRank(s, i) = k]]

\* [...response1.data, ...response2.data].sort(...)
MergeConversations(r1, r2) == SortConversations(r1 \o r2)

(***************************************************************************)
(* The record of the handler that ran last.                                *)
(***************************************************************************)
NoLast ==
    [op |-> "init", account |-> NoAccount, conv |-> NoConversation,
     count |-> "", stored |-> "", fetched |-> NoAccount,
     reloaded |-> NoConversation, r1 |-> <<>>, r2 |-> <<>>, flag |-> FALSE,
     value |-> "", rooms |-> <<>>, first |-> <<>>, run |-> 0]

Op(name) == [NoLast EXCEPT !.op = name]

(***************************************************************************)
(* Dialog: the poll timer.                                                 *)
(***************************************************************************)
TimerIds == 1..MaxTimerIds
FreeTimerIds(ts, ref) == TimerIds \ ({t.id : t \in ts} \cup {ref})
NewTimerId(ts, ref) == CHOOSE i \in FreeTimerIds(ts, ref) : TRUE

\* a mutant of ClearPollTimer: the clean-up clears nothing
KeepPollTimer(ts, ref) == ts

\* the effect's clean-up: if (pollingInterval.current) clearInterval(...)
ClearPollTimer(ts, ref) == IF ref /= 0 THEN {t \in ts : t.id /= ref} ELSE ts

\* a poll request, with the selectedAccount and messageCount of its closure
Poll(a, c) == [account |-> a, count |-> c]


\* the effect of [selectedAccount, messageCount] after its clean-up: with an
\* account selected it polls at once and starts a new interval timer
TimersAfterPollEffect(ts, ref, a, c) ==
    LET cleared == ClearPollTimer(ts, ref)
    IN  IF a /= NoAccount
        THEN cleared \cup {[id |-> NewTimerId(cleared, ref), account |-> a,
                            count |-> c, ms |-> PollIntervalMs]}
        ELSE cleared

RefAfterPollEffect(ts, ref, a) ==
    IF a /= NoAccount THEN NewTimerId(ClearPollTimer(ts, ref), ref) ELSE ref

PollsAfterPollEffect(ps, a, c) ==
    IF a /= NoAccount THEN ps (+) One(Poll(a, c)) ELSE ps

\* DialogPage's effect of [conversation]: the conversation whose messages
\* loadMessages starts to load (NoConversation: none, the list is emptied)
ConversationEffect(conv) == IF conv /= NoConversation THEN conv ELSE NoConversation

(***************************************************************************)
(* Dialog: the initial state is the one after the first render and its     *)
(* effects: fetchWxAccounts has been called, no account is selected.       *)
(***************************************************************************)
InitDialog ==
    /\ mounted = TRUE
    /\ wxAccountList = <<>>
    /\ accountsReq = TRUE
    /\ isLoading = TRUE
    /\ selectedAccount = NoAccount
    /\ messageCount = ""
    /\ pollingInterval = 0
    /\ timers = {}
    /\ polls = EmptyBag
    /\ convReqs = EmptyBag
    /\ isLoadingConversations = FALSE
    /\ conversations = <<>>
    /\ selectedConversation = NoConversation

InitPage ==
    /\ messages = <<>>
    /\ pageIsLoading = FALSE
    /\ isFetchingHistory = FALSE
    /\ newMessage = ""
    /\ isAIEnabled = TRUE
    /\ isSending = FALSE
    /\ enabledRoomsRef = <<>>
    /\ loads = EmptyBag
    /\ sends = EmptyBag
    /\ refetchTimers = EmptyBag
    /\ refetches = EmptyBag
    /\ toggles = EmptyBag
    /\ sendStats = [ok |-> 0, failed |-> 0, done |-> 0]
    /\ toggleSeq = [active |-> FALSE, base |-> TRUE, clean |-> TRUE, loaded |-> ""]
    /\ messagesFor = [room_id |-> "", wxid |-> "", failed |-> FALSE]

\* the workflow API holds a list of AI-enabled rooms for every account
InitialAIReplyList ==
    [a \in Accounts |-> IF a.name = "A" THEN <<"r2">> ELSE <<>>]

InitServer == aiReplyList = InitialAIReplyList

(***************************************************************************)
(* App: the routes.  The outer <Routes> holds /login and /*, the element   *)
(* of /* is ProtectedRoute around NavBar and the inner <Routes>.           *)
(***************************************************************************)
Paths ==
    {"/login", "/", "/dashboard", "/employee", "/employee/edit/A", "/dialog",
     "/task", "/calendar", "/server", "/nowhere"}

NoUser == [displayName |-> "", email |-> ""]               \* null
Users == {[displayName |-> "Ann", email |-> "ann@x"],
          [displayName |-> "", email |-> "bob@x"]}

\* a mutant of OuterRoute: the task page is routed beside /login
OuterRouteTaskOutside(path) ==
    CASE path = "/login" -> "Login"
      [] path = "/task" -> "Task"
      [] OTHER -> "ProtectedRoute"

\* the outer <Routes>: /login, and /* for every other path
OuterRoute(path) == IF path = "/login" THEN "Login" ELSE "ProtectedRoute"

\* the inner <Routes>; "none": no route matches and nothing is rendered
InnerRoute(path) ==
    CASE path = "/" -> "Navigate"
      [] path = "/dashboard" -> "Dashboard"
      [] path = "/employee" -> "EmployeeTable"
      [] path = "/employee/edit/A" -> "EmployeeEdit"
      [] path = "/dialog" -> "Dialog"
      [] path = "/task" -> "Task"
      [] path = "/calendar" -> "CalendarComponent"
      [] OTHER -> "none"

\* ProtectedRoute admits a user the identity provider has signed in and
\* renders its children for no one else
Admits(user) == user /= NoUser

\* <Navigate to="/dashboard" replace />, once it is rendered
Settle(path, user) ==
    IF OuterRoute(path) = "ProtectedRoute" /\ Admits(user)
           /\ InnerRoute(path) = "Navigate"
    THEN "/dashboard" ELSE path

\* the components App renders at a path
Render(path, user) ==
    IF OuterRoute(path) = "ProtectedRoute"
    THEN IF Admits(user)
         THEN {"ProtectedRoute", "NavBar"} \cup ({InnerRoute(path)} \ {"none"})
         ELSE {"ProtectedRoute"}
    ELSE {OuterRoute(path)}

\* navItems: name and url
NavItems ==
    {[name |-> "dashboard", url |-> "/dashboard"],
     [name |-> "employee", url |-> "/employee"],
     [name |-> "dialog", url |-> "/dialog"],
     [name |-> "task", url |-> "/task"],
     [name |-> "calendar", url |-> "/calendar"],
     [name |-> "server", url |-> "/server"]}

\* path.startsWith(url), for the paths and urls of the model
StartsWith(path, url) ==
    \/ path = url
    \/ path = "/employee/edit/A" /\ url = "/employee"

\* findSelectedNavItem(path); navItems.find takes the first match, and no
\* path of the model matches two items
FindSelectedNavItem(path) ==
    LET matching == {item \in NavItems :
                        \/ path = item.url
                        \/ StartsWith(path, item.url) /\ item.url /= "/dashboard"}
    IN  IF matching /= {} THEN (CHOOSE item \in matching : TRUE).name ELSE "dashboard"

\* the onAuthStateChanged callback of NavBar
UserDataOf(user) ==
    IF user /= NoUser THEN [displayName |-> user.displayName, email |-> user.email]
    ELSE [displayName |-> "", email |-> ""]

\* a visit begins at / with no one signed in
InitApp ==
    /\ location = "/"
    /\ authUser = NoUser
    /\ screen = Render("/", NoUser)
    /\ selected = ""
    /\ isCollapsed = FALSE
    /\ showLogoutDialog = FALSE
    /\ userData = UserDataOf(NoUser)

\* EmployeeEdit before it is handed an account
InitEdit ==
    /\ wxAccount = NoAccount
    /\ prompt = ""
    /\ promptReqs = EmptyBag

Init == InitDialog /\ InitPage /\ InitServer /\ InitApp /\ InitEdit /\ last = NoLast

\* fetchWxAccounts: the request succeeds
FetchWxAccountsOk(accounts) ==
    /\ mounted /\ accountsReq
    /\ accountsReq' = FALSE
    /\ wxAccountList' = accounts
    /\ isLoading' = FALSE
    /\ last' = Op("fetchWxAccountsOk")
    /\ UNCHANGED <<mounted, selectedAccount, messageCount, pollingInterval, timers,
                   polls, convReqs, isLoadingConversations, conversations,
                   selectedConversation, pageVars, serverVars, appVars, editVars>>

\* what the catch block of fetchWxAccounts leaves in wxAccountList
AccountsAfterFetchError(list) == list

\* a mutant of LoadingAfterFetchError: no finally block
LoadingStuckAfterFetchError(flag) == flag

\* the finally blocks: the loading flag a failed fetch leaves
LoadingAfterFetchError(flag) == FALSE

\* fetchWxAccounts: the request fails
FetchWxAccountsFail ==
    /\ mounted /\ accountsReq
    /\ accountsReq' = FALSE
    /\ wxAccountList' = AccountsAfterFetchError(wxAccountList)
    /\ isLoading' = LoadingAfterFetchError(isLoading)
    /\ last' = Op("fetchWxAccountsFail")
    /\ UNCHANGED <<mounted, selectedAccount, messageCount, pollingInterval, timers,
                   polls, convReqs, isLoadingConversations, conversations,
                   selectedConversation, pageVars, serverVars, appVars, editVars>>

\* the account button's onClick, and the poll effect when the account changed
ClickAccount(a) ==
    /\ mounted /\ ~isLoading
    /\ a \in Range(wxAccountList)
    /\ selectedAccount' = a
    /\ isLoadingConversations' = TRUE
    /\ conversations' = <<>>
    /\ IF a /= selectedAccount
       THEN /\ BagCardinality(polls) < MaxPolls
            /\ FreeTimerIds(ClearPollTimer(timers, pollingInterval), pollingInterval) /= {}
            /\ timers' = TimersAfterPollEffect(timers, pollingInterval, a, messageCount)
            /\ pollingInterval' = RefAfterPollEffect(timers, pollingInterval, a)
            /\ polls' = PollsAfterPollEffect(polls, a, messageCount)
       ELSE UNCHANGED <<timers, pollingInterval, polls>>
    /\ last' = [Op("clickAccount") EXCEPT !.account = a]
    /\ UNCHANGED <<mounted, wxAccountList, accountsReq, isLoading, messageCount,
                   convReqs, selectedConversation, pageVars, serverVars, appVars, editVars>>

\* the interval timer fires: pollMessageCount with the closure of its effect
TimerTick(t) ==
    /\ mounted
    /\ t \in timers
    /\ t.account /= NoAccount
    /\ BagCardinality(polls) < MaxPolls
    /\ polls' = polls (+) One(Poll(t.account, t.count))
    /\ last' = [Op("timerTick") EXCEPT !.account = t.account]
    /\ UNCHANGED <<mounted, wxAccountList, accountsReq, isLoading, selectedAccount,
                   messageCount, pollingInterval, timers, convReqs,
                   isLoadingConversations, conversations, selectedConversation,
                   pageVars, serverVars, appVars, editVars>>

\* if (newCount !== messageCount) setMessageCount(newCount): the state changes
\* when the new count differs from the closure's count and from the stored one
CountChanged(newCount, closureCount, stored) ==
    newCount /= closureCount /\ newCount /= stored

\* the effect of [messageCount]: the account getConversations is called for
ConversationsFetchedFor(count, a) ==
    IF count /= "" /\ a /= NoAccount THEN a ELSE NoAccount

\* the effect of [messageCount]: setSelectedConversation({...selectedConversation})
\* hands DialogPage a new object, and its effect of [conversation] runs
ReloadedConversation(count, a, conv) ==
    IF count /= "" /\ a /= NoAccount /\ conv /= NoConversation
    THEN ConversationEffect(conv) ELSE NoConversation

\* a poll is answered
PollOk(p, newCount) ==
    /\ mounted
    /\ BagIn(p, polls)
    /\ IF CountChanged(newCount, p.count, messageCount)
       THEN /\ messageCount' = newCount
            /\ FreeTimerIds(ClearPollTimer(timers, pollingInterval), pollingInterval) /= {}
            /\ timers' = TimersAfterPollEffect(timers, pollingInterval, selectedAccount, newCount)
            /\ pollingInterval' = RefAfterPollEffect(timers, pollingInterval, selectedAccount)
            /\ polls' = PollsAfterPollEffect(polls (-) One(p), selectedAccount, newCount)
            /\ LET a == ConversationsFetchedFor(newCount, selectedAccount)
               IN  /\ a /= NoAccount => BagCardinality(convReqs) < MaxConvReqs
                   /\ convReqs' = IF a /= NoAccount THEN convReqs (+) One(a) ELSE convReqs
                   /\ last' = [Op("pollOk") EXCEPT
                                 !.account = p.account, !.count = newCount,
                                 !.stored = messageCount, !.fetched = a,
                                 !.reloaded = ReloadedConversation(newCount, selectedAccount,
                                                                   selectedConversation)]
       ELSE /\ polls' = polls (-) One(p)
            /\ last' = [Op("pollOk") EXCEPT !.account = p.account, !.count = newCount,
                                            !.stored = messageCount]
            /\ UNCHANGED <<messageCount, timers, pollingInterval, convReqs>>
    /\ UNCHANGED <<mounted, wxAccountList, accountsReq, isLoading, selectedAccount,
                   isLoadingConversations, conversations, selectedConversation,
                   pageVars, serverVars, appVars, editVars>>

\* a poll fails: the catch block logs
PollFail(p) ==
    /\ mounted
    /\ BagIn(p, polls)
    /\ polls' = polls (-) One(p)
    /\ last' = [Op("pollFail") EXCEPT !.account = p.account]
    /\ UNCHANGED <<mounted, wxAccountList, accountsReq, isLoading, selectedAccount,
                   messageCount, pollingInterval, timers, convReqs,
                   isLoadingConversations, conversations, selectedConversation,
                   pageVars, serverVars, appVars, editVars>>

\* getConversations: both requests of the Promise.all are answered
GetConversationsOk(a, r1, r2) ==
    /\ mounted
    /\ BagIn(a, convReqs)
    /\ convReqs' = convReqs (-) One(a)
    /\ conversations' = MergeConversations(r1, r2)
    /\ isLoadingConversations' = FALSE
    /\ last' = [Op("getConversationsOk") EXCEPT !.account = a, !.r1 = r1, !.r2 = r2]
    /\ UNCHANGED <<mounted, wxAccountList, accountsReq, isLoading, selectedAccount,
                   messageCount, pollingInterval, timers, polls,
                   selectedConversation, pageVars, serverVars, appVars, editVars>>

\* what the catch block of getConversations leaves in conversations
ConversationsAfterFetchError(list) == list

\* getConversations: a request of the Promise.all fails
GetConversationsFail(a) ==
    /\ mounted
    /\ BagIn(a, convReqs)
    /\ convReqs' = convReqs (-) One(a)
    /\ conversations' = ConversationsAfterFetchError(conversations)
    /\ isLoadingConversations' = LoadingAfterFetchError(isLoadingConversations)
    /\ last' = [Op("getConversationsFail") EXCEPT !.account = a]
    /\ UNCHANGED <<mounted, wxAccountList, accountsReq, isLoading, selectedAccount,
                   messageCount, pollingInterval, timers, polls,
                   selectedConversation, pageVars, serverVars, appVars, editVars>>

\* DialogList calls onSelectDialog with one of the dialogs it shows
SelectConversation(c) ==
    /\ mounted
    /\ c \in Range(conversations)
    /\ c /= selectedConversation
    /\ selectedConversation' = c
    /\ last' = [Op("selectConversation") EXCEPT !.conv = c,
                                                !.reloaded = ConversationEffect(c)]
    /\ UNCHANGED <<mounted, wxAccountList, accountsReq, isLoading, selectedAccount,
                   messageCount, pollingInterval, timers, polls, convReqs,
                   isLoadingConversations, conversations, pageVars, serverVars, appVars, editVars>>

\* the view is left: the clean-up of the poll effect runs
Unmount ==
    /\ mounted
    /\ mounted' = FALSE
    /\ timers' = ClearPollTimer(timers, pollingInterval)
    /\ last' = Op("unmount")
    /\ UNCHANGED <<wxAccountList, accountsReq, isLoading, selectedAccount,
                   messageCount, pollingInterval, polls, convReqs,
                   isLoadingConversations, conversations, selectedConversation,
                   pageVars, serverVars, appVars, editVars>>

NextDialog ==
    \/ \E accounts \in AccountLists : FetchWxAccountsOk(accounts)
    \/ FetchWxAccountsFail
    \/ \E a \in Accounts : ClickAccount(a)
    \/ \E t \in timers : TimerTick(t)
    \/ \E p \in BagToSet(polls), c \in Counts : PollOk(p, c)
    \/ \E p \in BagToSet(polls) : PollFail(p)
    \/ \E a \in BagToSet(convReqs), r1, r2 \in RoomListResponses : GetConversationsOk(a, r1, r2)
    \/ \E a \in BagToSet(convReqs) : GetConversationsFail(a)
    \/ \E c \in ConvRecords : SelectConversation(c)
    \/ Unmount

\* Dialog, with DialogPage reduced to the conversation it is handed
SpecDialog == Init /\ [][NextDialog]_vars

\* Dialog while it stays mounted and the backend answers every request
NextDialogAnswered ==
    \/ \E accounts \in AccountLists : FetchWxAccountsOk(accounts)
    \/ \E a \in Accounts : ClickAccount(a)
    \/ \E t \in timers : TimerTick(t)
    \/ \E p \in BagToSet(polls), c \in Counts : PollOk(p, c)
    \/ \E a \in BagToSet(convReqs), r1, r2 \in RoomListResponses : GetConversationsOk(a, r1, r2)
    \/ \E c \in ConvRecords : SelectConversation(c)

\* every request in flight is answered and the interval timer keeps firing;
\* the user is free to click or not
BackendAnswers ==
    /\ WF_vars(\E accounts \in AccountLists : FetchWxAccountsOk(accounts))
    /\ WF_vars(\E p \in BagToSet(polls), c \in Counts : PollOk(p, c))
    /\ WF_vars(\E a \in BagToSet(convReqs), r1, r2 \in RoomListResponses :
                  GetConversationsOk(a, r1, r2))
    /\ WF_vars(\E t \in timers : TimerTick(t))

SpecDialogLive == Init /\ [][NextDialogAnswered]_vars /\ BackendAnswers


(***************************************************************************)
(* DialogPage: values.                                                     *)
(***************************************************************************)
\* the records the chat-message endpoints answer with
M1 == [msg_id |-> "m1", msg_datetime |-> "10:00", sender_id |-> "wxA"]
MsgRecords ==
    {M1,
     [msg_id |-> "m2", msg_datetime |-> "09:00:00", sender_id |-> "wxB"],
     [msg_id |-> "m3", msg_datetime |-> "09:00", sender_id |-> "cust"]}
MsgResponses == SeqsUpTo(MsgRecords, MaxRecs)

\* the conversations DialogPage is handed: one per room
PageConversations == {c \in ConvRecords : c.msg_datetime /= "10:00"}

\* what the input field may hold
Texts == {" ", "hi"}
Trim(t) == IF t = " " THEN "" ELSE t

\* aiResponse.value: JSON texts of room lists, JSON null, and no JSON at all
AIValues == {"[]", "[\"r1\"]", "[\"r1\",\"r2\"]", "null", "oops"}

\* JSON.parse(text): kind "error" is a SyntaxError
JSONParse(text) ==
    CASE text = "[]" -> [kind |-> "array", value |-> <<>>]
      [] text = "[\"r1\"]" -> [kind |-> "array", value |-> <<"r1">>]
      [] text = "[\"r2\"]" -> [kind |-> "array", value |-> <<"r2">>]
      [] text = "[\"r1\",\"r2\"]" -> [kind |-> "array", value |-> <<"r1", "r2">>]
      [] text = "[\"r2\",\"r1\"]" -> [kind |-> "array", value |-> <<"r2", "r1">>]
      [] text = "null" -> [kind |-> "null", value |-> <<>>]
      [] OTHER -> [kind |-> "error", value |-> <<>>]

\* JSON.stringify(list) of a list of room ids
JSONStringify(list) ==
    CASE list = <<>> -> "[]"
      [] list = <<"r1">> -> "[\"r1\"]"
      [] list = <<"r2">> -> "[\"r2\"]"
      [] list = <<"r1", "r2">> -> "[\"r1\",\"r2\"]"
      [] list = <<"r2", "r1">> -> "[\"r2\",\"r1\"]"
      [] OTHER -> "oops"

Includes(s, x) == x \in Range(s)

\* a mutant of CompareMessages: newest first
CompareMessagesDesc(a, b) == GetTime(b.msg_datetime) - GetTime(a.msg_datetime)

\* (a, b) => new Date(a.msg_datetime).getTime() - new Date(b.msg_datetime).getTime()
CompareMessages(a, b) == GetTime(a.msg_datetime) - GetTime(b.msg_datetime)

MessageRank(s, i) ==
    1 + Cardinality({j \in 1..Len(s) :
                        \/ CompareMessages(s[j], s[i]) < 0
                        \/ CompareMessages(s[j], s[i]) = 0 /\ j < i})

SortMessages(s) ==
    [k \in 1..Len(s) |-> s[CHOOSE i \in 1..Len(s) : MessageRank(s, i) = k]]

\* allMessages.map(msg => ({id, timestamp, isUser, ...})); content, senderName
\* and msgType are copied through and left out here
TransformMessage(msg, account) ==
    [id |-> msg.msg_id,
     timestamp |-> GetTime(msg.msg_datetime),
     isUser |-> msg.sender_id = account.wxid]

\* [...response1.data.records, ...response2.data.records].sort(...).map(...)
MergeMessages(r1, r2, account) ==
    LET all == SortMessages(r1 \o r2)
    IN  [i \in 1..Len(all) |-> TransformMessage(all[i], account)]

\* a call of loadMessages, with the conversation and account of its closure;
\* phase "ai": getAIReplyListApi is in flight, "msgs": the two message requests
Load(c, a, ph) == [conv |-> c, account |-> a, phase |-> ph]

\* a call of handleSendMessage (and its re-fetch), with its closure
Send(c, a) == [conv |-> c, account |-> a]

\* the setTimeout of a successful send
RefetchTimer(s) == [conv |-> s.conv, account |-> s.account, ms |-> RefetchDelayMs]

\* a postAIReplyListApi request of a toggle click
Toggle(new, a, rooms) == [new |-> new, account |-> a, rooms |-> rooms]

For(c, a) == [room_id |-> c.room_id, wxid |-> a.wxid, failed |-> FALSE]

\* a request has failed since the open conversation was selected
Failed(for) == [for EXCEPT !.failed = TRUE]

(***************************************************************************)
(* DialogPage: what Dialog hands it.  Dialog selects an account with the   *)
(* account button and a conversation with DialogList or, after a poll,     *)
(* with a copy of the selected one; neither goes back to null, and a       *)
(* conversation is selected only after an account.                         *)
(***************************************************************************)
\* the requests and timeouts of DialogPage that are pending
Pending ==
    BagCardinality(loads) + BagCardinality(sends) + BagCardinality(refetchTimers)
        + BagCardinality(refetches) + BagCardinality(toggles)

PropAccount(a) ==
    /\ a /= selectedAccount
    /\ selectedAccount' = a
    /\ last' = [Op("propAccount") EXCEPT !.account = a]
    /\ UNCHANGED <<mounted, wxAccountList, accountsReq, isLoading, messageCount,
                   pollingInterval, timers, polls, convReqs, isLoadingConversations,
                   conversations, selectedConversation, pageVars, serverVars, appVars, editVars>>

\* a new conversation object arrives: the effect of [conversation] calls
\* loadMessages, which sets isFetchingHistory and asks for the AI-reply list
PropConversation(c) ==
    /\ selectedAccount /= NoAccount
    /\ Pending < MaxPending
    /\ selectedConversation' = c
    /\ ConversationEffect(c) = c
    /\ isFetchingHistory' = TRUE
    /\ loads' = loads (+) One(Load(c, selectedAccount, "ai"))
    /\ messagesFor' = [messagesFor EXCEPT !.failed = FALSE]
    /\ toggleSeq' = [toggleSeq EXCEPT !.loaded = ""]
    /\ last' = [Op("propConversation") EXCEPT !.conv = c, !.account = selectedAccount,
                                              !.reloaded = ConversationEffect(c)]
    /\ UNCHANGED <<mounted, wxAccountList, accountsReq, isLoading, selectedAccount,
                   messageCount, pollingInterval, timers, polls, convReqs,
                   isLoadingConversations, conversations, serverVars, appVars,
                   editVars>>
    /\ UNCHANGED <<messages, pageIsLoading, newMessage, isAIEnabled, isSending,
                   enabledRoomsRef, sends, refetchTimers, refetches, toggles,
                   sendStats>>

(***************************************************************************)
(* DialogPage: loadMessages.                                               *)
(***************************************************************************)
\* a mutant of RoomsAfterAIReply: the local list is not replaced
RoomsKeptAfterAIReply(text, old) == old

\* enabledRoomsRef.current after the inner try/catch
RoomsAfterAIReply(text, old) ==
    IF JSONParse(text).kind = "array" THEN JSONParse(text).value ELSE <<>>

\* isAIEnabled after the inner try/catch: enabledRooms.includes(room_id), and
\* false when JSON.parse or includes throws
EnabledAfterAIReply(text, room) ==
    JSONParse(text).kind = "array" /\ Includes(JSONParse(text).value, room)

\* getAIReplyListApi is answered; the two message requests are issued
LoadAIReply(l, text) ==
    /\ BagIn(l, loads) /\ l.phase = "ai"
    /\ enabledRoomsRef' = RoomsAfterAIReply(text, enabledRoomsRef)
    /\ isAIEnabled' = EnabledAfterAIReply(text, l.conv.room_id)
    /\ loads' = (loads (-) One(l)) (+) One(Load(l.conv, l.account, "msgs"))
    /\ toggleSeq' = [toggleSeq EXCEPT !.clean = FALSE, !.loaded = l.conv.room_id]
    /\ last' = [Op("loadAIReply") EXCEPT !.conv = l.conv, !.account = l.account,
                                         !.value = text]
    /\ UNCHANGED <<appVars, editVars, serverVars, dialogVars,
                   messages, pageIsLoading, isFetchingHistory, newMessage,
                   isSending, sends, refetchTimers, refetches, toggles, sendStats,
                   messagesFor>>

\* what the catch blocks of loadMessages and of the re-fetch leave in messages
MessagesAfterFetchError(list) == list

\* getAIReplyListApi or a message request fails: catch logs, finally resets
LoadFail(l) ==
    /\ BagIn(l, loads)
    /\ loads' = loads (-) One(l)
    /\ messages' = MessagesAfterFetchError(messages)
    /\ isFetchingHistory' = LoadingAfterFetchError(isFetchingHistory)
    /\ messagesFor' = Failed(messagesFor)
    /\ last' = [Op("loadFail") EXCEPT !.conv = l.conv, !.account = l.account,
                                      !.value = l.phase]
    /\ UNCHANGED <<appVars, editVars, serverVars, dialogVars,
                   pageIsLoading, newMessage, isAIEnabled, isSending,
                   enabledRoomsRef, sends, refetchTimers, refetches, toggles,
                   sendStats, toggleSeq>>

\* both message requests of the Promise.all are answered
LoadMessagesOk(l, r1, r2) ==
    /\ BagIn(l, loads) /\ l.phase = "msgs"
    /\ loads' = loads (-) One(l)
    /\ messages' = MergeMessages(r1, r2, l.account)
    /\ messagesFor' = [For(l.conv, l.account) EXCEPT !.failed = messagesFor.failed]
    /\ isFetchingHistory' = FALSE
    /\ last' = [Op("loadMessagesOk") EXCEPT !.conv = l.conv, !.account = l.account,
                                            !.r1 = r1, !.r2 = r2]
    /\ UNCHANGED <<appVars, editVars, serverVars, dialogVars,
                   pageIsLoading, newMessage, isAIEnabled, isSending,
                   enabledRoomsRef, sends, refetchTimers, refetches, toggles,
                   sendStats, toggleSeq>>

(***************************************************************************)
(* DialogPage: sending a message.                                          *)
(***************************************************************************)
\* the input and the send button are disabled while isLoading || isFetchingHistory
InputEnabled ==
    selectedConversation /= NoConversation /\ ~(pageIsLoading \/ isFetchingHistory)

\* the input's onChange
TypeMessage(t) ==
    /\ InputEnabled
    /\ t /= newMessage
    /\ newMessage' = t
    /\ last' = Op("typeMessage")
    /\ UNCHANGED <<appVars, editVars, serverVars, dialogVars,
                   messages, pageIsLoading, isFetchingHistory, isAIEnabled,
                   isSending, enabledRoomsRef, loads, sends, refetchTimers, refetches,
                   toggles, sendStats, toggleSeq, messagesFor>>

SendsSoFar == sendStats.ok + sendStats.failed + BagCardinality(sends)

\* handleSendMessage up to its await
HandleSendMessage ==
    /\ InputEnabled
    /\ Trim(newMessage) /= "" /\ selectedAccount /= NoAccount
    /\ SendsSoFar < MaxSends /\ Pending < MaxPending
    /\ newMessage' = ""
    /\ pageIsLoading' = TRUE
    /\ sends' = sends (+) One(Send(selectedConversation, selectedAccount))
    /\ last' = [Op("handleSendMessage") EXCEPT !.conv = selectedConversation,
                                               !.account = selectedAccount]
    /\ UNCHANGED <<appVars, editVars, serverVars, dialogVars,
                   messages, isFetchingHistory, isAIEnabled, isSending,
                   enabledRoomsRef, loads, refetchTimers, refetches, toggles,
                   sendStats, toggleSeq, messagesFor>>

\* sendChatMessageApi succeeded: setIsSending(true), setTimeout(..., 2000)
SendOk(s) ==
    /\ BagIn(s, sends)
    /\ sends' = sends (-) One(s)
    /\ isSending' = TRUE
    /\ refetchTimers' = refetchTimers (+) One(RefetchTimer(s))
    /\ pageIsLoading' = FALSE
    /\ sendStats' = [sendStats EXCEPT !.ok = @ + 1]
    /\ last' = [Op("sendOk") EXCEPT !.conv = s.conv, !.account = s.account]
    /\ UNCHANGED <<appVars, editVars, serverVars, dialogVars,
                   messages, isFetchingHistory, newMessage, isAIEnabled,
                   enabledRoomsRef, loads, refetches, toggles, toggleSeq, messagesFor>>

\* a mutant of TimersAfterSendError: a failed send schedules the re-fetch too
TimersWithRefetchAfterSendError(ts, s) == ts (+) One(RefetchTimer(s))

\* the catch block of handleSendMessage: the timeouts it leaves pending
TimersAfterSendError(ts, s) == ts

\* sendChatMessageApi failed
SendFail(s) ==
    /\ BagIn(s, sends)
    /\ sends' = sends (-) One(s)
    /\ refetchTimers' = TimersAfterSendError(refetchTimers, s)
    /\ pageIsLoading' = LoadingAfterFetchError(pageIsLoading)
    /\ sendStats' = [sendStats EXCEPT !.failed = @ + 1]
    /\ messagesFor' = Failed(messagesFor)
    /\ last' = [Op("sendFail") EXCEPT !.conv = s.conv, !.account = s.account]
    /\ UNCHANGED <<appVars, editVars, serverVars, dialogVars,
                   messages, isFetchingHistory, newMessage, isAIEnabled,
                   isSending, enabledRoomsRef, loads, refetches, toggles, toggleSeq>>

\* the timeout fires: the two message requests are issued
RefetchFire(t) ==
    /\ BagIn(t, refetchTimers)
    /\ refetchTimers' = refetchTimers (-) One(t)
    /\ refetches' = refetches (+) One(Send(t.conv, t.account))
    /\ last' = [Op("refetchFire") EXCEPT !.conv = t.conv, !.account = t.account]
    /\ UNCHANGED <<appVars, editVars, serverVars, dialogVars,
                   messages, pageIsLoading, isFetchingHistory, newMessage,
                   isAIEnabled, isSending, enabledRoomsRef, loads, sends, toggles,
                   sendStats, toggleSeq, messagesFor>>

\* the re-fetch is answered
RefetchOk(f, r1, r2) ==
    /\ BagIn(f, refetches)
    /\ refetches' = refetches (-) One(f)
    /\ messages' = MergeMessages(r1, r2, f.account)
    /\ messagesFor' = [For(f.conv, f.account) EXCEPT !.failed = messagesFor.failed]
    /\ isSending' = FALSE
    /\ sendStats' = [sendStats EXCEPT !.done = @ + 1]
    /\ last' = [Op("refetchOk") EXCEPT !.conv = f.conv, !.account = f.account,
                                       !.r1 = r1, !.r2 = r2]
    /\ UNCHANGED <<appVars, editVars, serverVars, dialogVars,
                   pageIsLoading, isFetchingHistory, newMessage,
                   isAIEnabled, enabledRoomsRef, loads, sends, refetchTimers, toggles,
                   toggleSeq>>

\* the re-fetch fails: catch logs, finally resets isSending; nothing is retried
RefetchFail(f) ==
    /\ BagIn(f, refetches)
    /\ refetches' = refetches (-) One(f)
    /\ messages' = MessagesAfterFetchError(messages)
    /\ isSending' = LoadingAfterFetchError(isSending)
    /\ sendStats' = [sendStats EXCEPT !.done = @ + 1]
    /\ messagesFor' = Failed(messagesFor)
    /\ last' = [Op("refetchFail") EXCEPT !.conv = f.conv, !.account = f.account]
    /\ UNCHANGED <<appVars, editVars, serverVars, dialogVars,
                   pageIsLoading, isFetchingHistory, newMessage,
                   isAIEnabled, enabledRoomsRef, loads, sends, refetchTimers, toggles,
                   toggleSeq>>

(***************************************************************************)
(* DialogPage: the AI toggle.                                              *)
(***************************************************************************)
IndexOf(s, x) ==
    IF Includes(s, x) THEN CHOOSE i \in 1..Len(s) : s[i] = x /\ \A j \in 1..(i - 1) : s[j] /= x
    ELSE 0

\* currentRooms.splice(index, 1)
Splice(s, index) == [i \in 1..(Len(s) - 1) |-> IF i < index THEN s[i] ELSE s[i + 1]]

\* currentRooms of the onClick handler
RoomsAfterClick(rooms, room, newAIEnabled) ==
    IF newAIEnabled
    THEN IF ~Includes(rooms, room) THEN Append(rooms, room) ELSE rooms
    ELSE IF IndexOf(rooms, room) > 0 THEN Splice(rooms, IndexOf(rooms, room)) ELSE rooms

\* the handler that ran last was a click or the success of a click's request:
\* a run of clicks none of which has failed and which nothing else interrupted
InClickRun == last.op \in {"toggleClick", "toggleOk"} /\ last.run >= 1

\* the toggle button's onClick up to its await; the button is rendered only
\* with a conversation
ToggleClick ==
    /\ selectedConversation /= NoConversation
    /\ Pending < MaxPending
    /\ LET newAIEnabled == ~isAIEnabled
           currentRooms == RoomsAfterClick(enabledRoomsRef, selectedConversation.room_id,
                                           newAIEnabled)
       IN  /\ isAIEnabled' = newAIEnabled
           /\ enabledRoomsRef' = currentRooms
           /\ toggles' = toggles (+) One(Toggle(newAIEnabled, selectedAccount, currentRooms))
           /\ last' = [Op("toggleClick") EXCEPT
                         !.conv = selectedConversation, !.account = selectedAccount,
                         !.flag = newAIEnabled, !.rooms = enabledRoomsRef,
                         !.first = IF InClickRun THEN last.rooms ELSE <<>>,
                         !.run = IF InClickRun THEN 2 ELSE 1]
    /\ toggleSeq' = IF toggles = EmptyBag
                    THEN [toggleSeq EXCEPT !.active = TRUE, !.base = isAIEnabled,
                                           !.clean = TRUE]
                    ELSE toggleSeq
    /\ UNCHANGED <<appVars, editVars, serverVars, dialogVars,
                   messages, pageIsLoading, isFetchingHistory, newMessage,
                   isSending, loads, sends, refetchTimers, refetches, sendStats,
                   messagesFor>>

\* postAIReplyListApi(name, wxid, rooms): the workflow API stores the list
\* for the account
StoredAfterPost(store, account, rooms) == [store EXCEPT ![account] = rooms]

\* postAIReplyListApi succeeded: the handler ends
ToggleAnswered(t) ==
    /\ BagIn(t, toggles)
    /\ toggles' = toggles (-) One(t)
    /\ toggleSeq' = [toggleSeq EXCEPT !.clean = FALSE]
    /\ last' = IF InClickRun
               THEN [last EXCEPT !.op = "toggleOk", !.account = t.account,
                                 !.flag = t.new]
               ELSE [Op("toggleOk") EXCEPT !.account = t.account, !.flag = t.new]
    /\ UNCHANGED <<appVars, editVars, dialogVars,
                   messages, pageIsLoading, isFetchingHistory, newMessage,
                   isAIEnabled, isSending, enabledRoomsRef, loads, sends, refetchTimers,
                   refetches, sendStats, messagesFor>>

\* postAIReplyListApi succeeded; what the workflow API stores is left out (it
\* answers getAIReplyListApi with any value, as with other clients writing)
ToggleOk(t) == ToggleAnswered(t) /\ UNCHANGED serverVars

\* postAIReplyListApi succeeded and the workflow API has stored the list
ToggleStored(t) ==
    /\ ToggleAnswered(t)
    /\ aiReplyList' = StoredAfterPost(aiReplyList, t.account, t.rooms)

\* the catch block of the onClick handler: setIsAIEnabled(!newAIEnabled)
EnabledAfterToggleError(newAIEnabled) == ~newAIEnabled

\* postAIReplyListApi failed
ToggleFail(t) ==
    /\ BagIn(t, toggles)
    /\ toggles' = toggles (-) One(t)
    /\ isAIEnabled' = EnabledAfterToggleError(t.new)
    /\ last' = [Op("toggleFail") EXCEPT !.account = t.account, !.flag = t.new]
    /\ UNCHANGED <<appVars, editVars, serverVars, dialogVars,
                   messages, pageIsLoading, isFetchingHistory, newMessage,
                   isSending, enabledRoomsRef, loads, sends, refetchTimers, refetches,
                   sendStats, toggleSeq, messagesFor>>

NextProps ==
    \/ \E a \in Accounts : PropAccount(a)
    \/ \E c \in PageConversations : PropConversation(c)

\* loadMessages with its answers drawn from the given sets
NextLoad(aiValues, responses) ==
    \/ \E l \in BagToSet(loads), text \in aiValues : LoadAIReply(l, text)
    \/ \E l \in BagToSet(loads) : LoadFail(l)
    \/ \E l \in BagToSet(loads), r1, r2 \in responses : LoadMessagesOk(l, r1, r2)

\* sending with the answers of the re-fetch drawn from the given set
NextSend(responses) ==
    \/ \E t \in Texts : TypeMessage(t)
    \/ HandleSendMessage
    \/ \E s \in BagToSet(sends) : SendOk(s)
    \/ \E s \in BagToSet(sends) : SendFail(s)
    \/ \E t \in BagToSet(refetchTimers) : RefetchFire(t)
    \/ \E f \in BagToSet(refetches), r1, r2 \in responses : RefetchOk(f, r1, r2)
    \/ \E f \in BagToSet(refetches) : RefetchFail(f)

NextToggle ==
    \/ ToggleClick
    \/ \E t \in BagToSet(toggles) : ToggleOk(t)
    \/ \E t \in BagToSet(toggles) : ToggleFail(t)

\* DialogPage loading and sending under every interleaving the bounds allow,
\* with Dialog reduced to its props and the endpoints answering with at most
\* the one record M1
SpecMessages ==
    Init /\ [][NextProps \/ NextLoad({"[\"r1\"]"}, {<<>>, <<M1>>}) \/ NextSend({<<>>, <<M1>>})]_vars

\* at most MaxPendingMerge requests and timeouts are pending after the step
FewPending == Pending' <= MaxPendingMerge

NextMerge ==
    \/ (\E a \in Accounts : PropAccount(a)) /\ FewPending
    \/ (\E c \in PageConversations : PropConversation(c)) /\ FewPending
    \/ (\E l \in BagToSet(loads) : LoadAIReply(l, "[\"r1\"]")) /\ FewPending
    \/ (\E l \in BagToSet(loads) : LoadFail(l)) /\ FewPending
    \/ (\E l \in BagToSet(loads), r1, r2 \in MsgResponses : LoadMessagesOk(l, r1, r2))
           /\ FewPending
    \/ (\E t \in Texts : TypeMessage(t)) /\ FewPending
    \/ HandleSendMessage /\ FewPending
    \/ (\E s \in BagToSet(sends) : SendOk(s)) /\ FewPending
    \/ (\E s \in BagToSet(sends) : SendFail(s)) /\ FewPending
    \/ (\E t \in BagToSet(refetchTimers) : RefetchFire(t)) /\ FewPending
    \/ (\E f \in BagToSet(refetches), r1, r2 \in MsgResponses : RefetchOk(f, r1, r2))
           /\ FewPending
    \/ (\E f \in BagToSet(refetches) : RefetchFail(f)) /\ FewPending

\* DialogPage loading and sending with every answer of the message endpoints,
\* MaxPendingMerge requests or timeouts pending at a time
SpecMerge == Init /\ [][NextMerge]_vars

\* DialogPage loading and toggling under every interleaving the bounds allow,
\* with Dialog reduced to its props and no messages in the conversations
SpecToggle == Init /\ [][NextProps \/ NextLoad(AIValues, {<<>>}) \/ NextToggle]_vars

\* loadMessages answered by the workflow API from the lists it stores
NextLoadStored ==
    \/ \E l \in BagToSet(loads) : LoadAIReply(l, JSONStringify(aiReplyList[l.account]))
    \/ \E l \in BagToSet(loads) : LoadFail(l)
    \/ \E l \in BagToSet(loads) : LoadMessagesOk(l, <<>>, <<>>)

\* DialogPage loading and toggling as the only client of the workflow API:
\* getAIReplyListApi answers with the list stored for the account
NextToggleStored ==
    \/ ToggleClick
    \/ \E t \in BagToSet(toggles) : ToggleStored(t)
    \/ \E t \in BagToSet(toggles) : ToggleFail(t)

\* the conversation of room r1 is the one opened; r2 is the other room
NextPropsStored ==
    \/ \E a \in Accounts : PropAccount(a)
    \/ \E c \in PageConversations : c.room_id = "r1" /\ PropConversation(c)

SpecStored == Init /\ [][NextPropsStored \/ NextLoadStored \/ NextToggleStored]_vars

(***************************************************************************)
(* App and NavBar.  A navigation, a sign-in or a sign-out is followed by   *)
(* the render of App: the route is matched, <Navigate> replaces / by       *)
(* /dashboard where it is rendered, and NavBar keeps its state while it    *)
(* stays mounted and starts afresh when it is mounted again.               *)
(***************************************************************************)
GoTo(path, user) ==
    LET p == Settle(path, user)
    IN  /\ location' = p
        /\ authUser' = user
        /\ screen' = Render(p, user)
        /\ IF "NavBar" \in Render(p, user)
           THEN /\ selected' = FindSelectedNavItem(p)
                /\ userData' = UserDataOf(user)
                /\ IF "NavBar" \in screen
                   THEN UNCHANGED <<isCollapsed, showLogoutDialog>>
                   ELSE isCollapsed' = FALSE /\ showLogoutDialog' = FALSE
           ELSE /\ selected' = ""
                /\ userData' = UserDataOf(NoUser)
                /\ isCollapsed' = FALSE
                /\ showLogoutDialog' = FALSE

\* the location changes: a link, the address bar, the history
NavigateTo(path) ==
    /\ path /= location
    /\ GoTo(path, authUser)
    /\ last' = [Op("navigateTo") EXCEPT !.value = path]
    /\ UNCHANGED <<dialogVars, pageVars, serverVars, editVars>>

\* NavBar.handleClick: setSelected(itemName); navigate(url)
HandleClick(item) ==
    /\ "NavBar" \in screen
    /\ GoTo(item.url, authUser)
    /\ last' = [Op("handleClick") EXCEPT !.value = item.url]
    /\ UNCHANGED <<dialogVars, pageVars, serverVars, editVars>>

\* NavBar.toggleCollapse
ToggleCollapse ==
    /\ "NavBar" \in screen
    /\ isCollapsed' = ~isCollapsed
    /\ last' = Op("toggleCollapse")
    /\ UNCHANGED <<location, authUser, screen, selected, showLogoutDialog, userData,
                   dialogVars, pageVars, serverVars, editVars>>

\* the onClick of the account line, rendered while NavBar is not collapsed
ToggleLogoutDialog ==
    /\ "NavBar" \in screen /\ ~isCollapsed
    /\ showLogoutDialog' = ~showLogoutDialog
    /\ last' = Op("toggleLogoutDialog")
    /\ UNCHANGED <<location, authUser, screen, selected, isCollapsed, userData,
                   dialogVars, pageVars, serverVars, editVars>>

\* handleClickOutside: a mousedown outside the rendered logout dialog
HandleClickOutside ==
    /\ "NavBar" \in screen
    /\ showLogoutDialog /\ ~isCollapsed
    /\ showLogoutDialog' = FALSE
    /\ last' = Op("handleClickOutside")
    /\ UNCHANGED <<location, authUser, screen, selected, isCollapsed, userData,
                   dialogVars, pageVars, serverVars, editVars>>

\* handleLogout: logoutUser() succeeded, navigate('/login')
HandleLogoutOk ==
    /\ "NavBar" \in screen
    /\ showLogoutDialog /\ ~isCollapsed
    /\ GoTo("/login", NoUser)
    /\ last' = [Op("handleLogoutOk") EXCEPT !.value = "/login"]
    /\ UNCHANGED <<dialogVars, pageVars, serverVars, editVars>>

\* handleLogout: logoutUser() failed, the catch block logs
HandleLogoutFail ==
    /\ "NavBar" \in screen
    /\ showLogoutDialog /\ ~isCollapsed
    /\ last' = Op("handleLogoutFail")
    /\ UNCHANGED <<appVars, dialogVars, pageVars, serverVars, editVars>>

\* the identity provider signs a user in on the login page
SignIn(user) ==
    /\ "Login" \in screen
    /\ authUser = NoUser
    /\ GoTo(location, user)
    /\ last' = Op("signIn")
    /\ UNCHANGED <<dialogVars, pageVars, serverVars, editVars>>

\* the identity provider ends the session
SessionEnd ==
    /\ authUser /= NoUser
    /\ GoTo(location, NoUser)
    /\ last' = Op("sessionEnd")
    /\ UNCHANGED <<dialogVars, pageVars, serverVars, editVars>>

NextApp ==
    \/ \E path \in Paths : NavigateTo(path)
    \/ \E item \in NavItems : HandleClick(item)
    \/ ToggleCollapse
    \/ ToggleLogoutDialog
    \/ HandleClickOutside
    \/ HandleLogoutOk
    \/ HandleLogoutFail
    \/ \E user \in Users : SignIn(user)
    \/ SessionEnd

\* the routed shell: navigation, NavBar and the identity provider
SpecApp == Init /\ [][NextApp]_vars

(***************************************************************************)
(* EmployeeEdit: the prompt of the account it is handed.                   *)
(***************************************************************************)
\* what getWxAccountPromptApi answers: nothing, or a value that may be empty
PromptResponses ==
    {[present |-> FALSE, value |-> ""], [present |-> TRUE, value |-> ""],
     [present |-> TRUE, value |-> "p1"], [present |-> TRUE, value |-> "p2"]}

\* what EmployeeConfig hands to setPrompt
PromptTexts == {"", "typed"}

\* a mutant of PromptAfterResponse: an answer without a value empties the prompt
PromptEmptiedWithoutValue(old, response) ==
    IF response.present /\ response.value /= "" THEN response.value ELSE ""

\* if (response && response.value) setPrompt(response.value)
PromptAfterResponse(old, response) ==
    IF response.present /\ response.value /= "" THEN response.value ELSE old

\* the catch block of fetchPrompt logs
PromptAfterFetchError(old) == old

\* the requests in flight after the effect of [wxAccount] has run
PromptReqsAfterEffect(reqs, account) ==
    IF account /= NoAccount THEN reqs (+) One(account) ELSE reqs

\* the location hands EmployeeEdit another account (or none)
SetWxAccount(account) ==
    /\ account /= wxAccount
    /\ account /= NoAccount => BagCardinality(promptReqs) < MaxPromptReqs
    /\ wxAccount' = account
    /\ promptReqs' = PromptReqsAfterEffect(promptReqs, account)
    /\ last' = [Op("setWxAccount") EXCEPT !.account = account, !.stored = prompt]
    /\ UNCHANGED <<prompt, dialogVars, pageVars, serverVars, appVars>>

\* getWxAccountPromptApi is answered
FetchPromptOk(account, response) ==
    /\ BagIn(account, promptReqs)
    /\ promptReqs' = promptReqs (-) One(account)
    /\ prompt' = PromptAfterResponse(prompt, response)
    /\ last' = [Op("fetchPromptOk") EXCEPT !.account = account, !.stored = prompt,
                                           !.flag = response.present,
                                           !.value = response.value]
    /\ UNCHANGED <<wxAccount, dialogVars, pageVars, serverVars, appVars>>

\* getWxAccountPromptApi fails
FetchPromptFail(account) ==
    /\ BagIn(account, promptReqs)
    /\ promptReqs' = promptReqs (-) One(account)
    /\ prompt' = PromptAfterFetchError(prompt)
    /\ last' = [Op("fetchPromptFail") EXCEPT !.account = account, !.stored = prompt]
    /\ UNCHANGED <<wxAccount, dialogVars, pageVars, serverVars, appVars>>

\* EmployeeConfig calls the setPrompt it was handed
SetPrompt(text) ==
    /\ text /= prompt
    /\ prompt' = text
    /\ last' = [Op("setPrompt") EXCEPT !.value = text]
    /\ UNCHANGED <<wxAccount, promptReqs, dialogVars, pageVars, serverVars, appVars>>

NextEdit ==
    \/ \E account \in Accounts \cup {NoAccount} : SetWxAccount(account)
    \/ \E account \in BagToSet(promptReqs), response \in PromptResponses :
          FetchPromptOk(account, response)
    \/ \E account \in BagToSet(promptReqs) : FetchPromptFail(account)
    \/ \E text \in PromptTexts : SetPrompt(text)

\* one mounted EmployeeEdit
SpecEdit == Init /\ [][NextEdit]_vars

(***************************************************************************)
(* Claims about Dialog, checked under SpecDialog.                          *)
(***************************************************************************)
NoCount(x, s) == Cardinality({i \in 1..Len(s) : s[i] = x})

\* C1: polling runs on one interval timer of 3 seconds: there is exactly one
\* active timer while the view is mounted with an account selected, none
\* otherwise, the timer is the one pollingInterval names, and no poll is issued
\* (none is in flight) while no account has been selected.
C1_OnePollTimer ==
    /\ Cardinality(timers) = IF mounted /\ selectedAccount /= NoAccount THEN 1 ELSE 0
    /\ \A t \in timers : t.id = pollingInterval /\ t.ms = PollIntervalMs
    /\ selectedAccount = NoAccount => polls = EmptyBag
    /\ \A p \in BagToSet(polls) : p.account /= NoAccount

\* the effect has run again after a change of the count and of the account
C1_Witness ==
    /\ mounted
    /\ last.op = "clickAccount"
    /\ messageCount = "2"
    /\ selectedAccount.name = "B"
    /\ Cardinality(timers) = 1

\* C2: a poll for the selected account that returns a non-empty count other
\* than the stored one updates the stored count, fetches the conversations of
\* the selected account and reloads the open conversation; a poll that returns
\* the stored count does none of these.
C2_PollDetectsNewMessages ==
    (last.op = "pollOk" /\ last.account = selectedAccount) =>
        /\ (last.count /= last.stored /\ last.count /= "") =>
              /\ messageCount = last.count
              /\ last.fetched = selectedAccount
              /\ selectedConversation /= NoConversation =>
                    last.reloaded = selectedConversation
        /\ last.count = last.stored =>
              /\ messageCount = last.stored
              /\ last.fetched = NoAccount
              /\ last.reloaded = NoConversation

C3_OneRefetchPerSentMessage ==
    /\ sendStats.done + BagCardinality(refetches) + BagCardinality(refetchTimers)
           = sendStats.ok
    /\ \A t \in BagToSet(refetchTimers) : t.ms = RefetchDelayMs
    /\ last.op = "sendOk" =>
           BagIn(RefetchTimer(Send(last.conv, last.account)), refetchTimers)

\* one send succeeded and its re-fetch failed, another send failed
C3_Witness ==
    /\ last.op = "refetchFail"
    /\ sendStats = [ok |-> 1, failed |-> 1, done |-> 1]
    /\ Pending = 0

\* C4: after a fetch of a list throws, the list held in state is empty: the
\* account list, the conversation list and the message list.
C4_ListEmptyAfterFailedFetch ==
    /\ last.op = "fetchWxAccountsFail" => wxAccountList = <<>>
    /\ last.op = "getConversationsFail" => conversations = <<>>
    /\ (last.op = "loadFail" /\ last.value = "msgs") => messages = <<>>

\* C5: a failed request leaves no loading flag set: the flag of the operation
\* is false once its catch and finally blocks have run.
C5_NoLoadingFlagStuck ==
    /\ last.op = "fetchWxAccountsFail" => ~isLoading
    /\ last.op = "getConversationsFail" => ~isLoadingConversations
    /\ last.op = "loadFail" => ~isFetchingHistory
    /\ last.op = "sendFail" => ~pageIsLoading
    /\ last.op = "refetchFail" => ~isSending

\* a send failed after an earlier send had succeeded and its re-fetch was done
C5_Witness ==
    /\ last.op = "sendFail"
    /\ sendStats.done = 1 /\ sendStats.ok = 1
    /\ ~pageIsLoading /\ ~isSending /\ ~isFetchingHistory

\* C6: a failed toggle request sets isAIEnabled back to the value before its
\* click, so that once every request of a run of clicks has failed the toggle
\* shows the value it had before the first click of the run.
C6_ToggleRevertsOnError ==
    /\ last.op = "toggleFail" => isAIEnabled = ~last.flag
    /\ (toggleSeq.active /\ toggleSeq.clean /\ toggles = EmptyBag) =>
           isAIEnabled = toggleSeq.base

\* C7: after loadMessages has read the AI-reply list for a conversation,
\* isAIEnabled says whether the conversation's room is in the returned list and
\* enabledRoomsRef is that list; a value that is no list gives false and the
\* empty list.
C7_ToggleShowsReturnedList ==
    last.op = "loadAIReply" =>
        IF JSONParse(last.value).kind = "array"
        THEN /\ isAIEnabled <=> (last.conv.room_id \in Range(JSONParse(last.value).value))
             /\ enabledRoomsRef = JSONParse(last.value).value
        ELSE ~isAIEnabled /\ enabledRoomsRef = <<>>

\* the list is read for room r2 after a click had changed the local list
C7_Witness ==
    /\ last.op = "loadAIReply"
    /\ last.value = "[\"r1\",\"r2\"]"
    /\ last.conv.room_id = "r2"
    /\ isAIEnabled
    /\ toggles /= EmptyBag

RecordOf(id) == CHOOSE r \in MsgRecords : r.msg_id = id
IdCount(id, s) == Cardinality({i \in 1..Len(s) : s[i].msg_id = id})
Merged(account) ==
    /\ Len(messages) = Len(last.r1) + Len(last.r2)
    /\ \A r \in MsgRecords :
          Cardinality({i \in 1..Len(messages) : messages[i].id = r.msg_id})
              = IdCount(r.msg_id, last.r1) + IdCount(r.msg_id, last.r2)
    /\ \A i \in 1..(Len(messages) - 1) :
          messages[i].timestamp <= messages[i + 1].timestamp
    /\ \A i \in 1..Len(messages) :
          /\ messages[i].timestamp = GetTime(RecordOf(messages[i].id).msg_datetime)
          /\ messages[i].isUser <=> RecordOf(messages[i].id).sender_id = account.wxid

C10_NoDuplicates ==
    /\ \A i, j \in 1..Len(messages) : i /= j => messages[i].id /= messages[j].id
    /\ \A i, j \in 1..Len(conversations) : i /= j => conversations[i] /= conversations[j]

(***************************************************************************)
(* Claims about App and EmployeeEdit.                                      *)
(***************************************************************************)
ConsoleScreens ==
    {"NavBar", "Navigate", "Dashboard", "EmployeeTable", "EmployeeEdit", "Dialog",
     "Task", "CalendarComponent"}

\* C11: a console screen is rendered only inside ProtectedRoute and only
\* while ProtectedRoute admits the user; every path other than /login is
\* routed to ProtectedRoute and /login shows the login page alone; a
\* navigation to / ends at /dashboard, inside ProtectedRoute, when the user is
\* admitted, and renders no screen when not.
C11_AuthGatesConsole ==
    /\ screen \cap ConsoleScreens /= {} =>
           "ProtectedRoute" \in screen /\ Admits(authUser)
    /\ location /= "/login" => "ProtectedRoute" \in screen
    /\ location = "/login" => screen = {"Login"}
    /\ (last.op \in {"navigateTo", "handleClick"} /\ last.value = "/") =>
           IF Admits(authUser)
           THEN location = "/dashboard" /\ {"ProtectedRoute", "Dashboard"} \subseteq screen
           ELSE location = "/" /\ screen = {"ProtectedRoute"}

\* a signed-in user has gone to / and is shown the dashboard
C11_Witness ==
    /\ last.op = "navigateTo" /\ last.value = "/"
    /\ Admits(authUser)
    /\ location = "/dashboard"
    /\ "Dashboard" \in screen

Without(s, x) ==
    LET kept == {i \in 1..Len(s) : s[i] /= x}
    IN  [k \in 1..Cardinality(kept) |->
            s[CHOOSE i \in kept : Cardinality({j \in kept : j <= i}) = k]]

\* what a click is to make of the list: the room added at the end if it is
\* not in it, or taken out, nothing else touched
ListAfterToggle(rooms, room, enable) ==
    IF enable THEN IF room \in Range(rooms) THEN rooms ELSE Append(rooms, room)
    ELSE Without(rooms, room)

\* C12, the click itself: the local list after a click is the list before it
\* with the current room added once or removed and nothing else changed, and
\* this list is the one posted.
C12_ClickChangesOnlyCurrentRoom ==
    last.op = "toggleClick" =>
        /\ enabledRoomsRef = ListAfterToggle(last.rooms, last.conv.room_id, last.flag)
        /\ NoCount(last.conv.room_id, enabledRoomsRef) = IF last.flag THEN 1 ELSE 0
        /\ BagIn(Toggle(last.flag, last.account, enabledRoomsRef), toggles)

\* C12: a click changes only the current room's membership in the enabled-rooms
\* list and posts the updated list, and two consecutive successful clicks
\* leave the set of enabled rooms as it was before the first.
C12_ToggleChangesOnlyCurrentRoom ==
    /\ C12_ClickChangesOnlyCurrentRoom
    /\ (last.op = "toggleOk" /\ last.run = 2 /\ toggles = EmptyBag) =>
           Range(enabledRoomsRef) = Range(last.first)

\* C13: the list a click posts for the selected account differs from the list
\* the workflow API stores for that account by the current room at most.
C13_PostDiffersOnlyByCurrentRoom ==
    last.op = "toggleClick" =>
        \A r \in Rooms \ {last.conv.room_id} :
            r \in Range(enabledRoomsRef) <=> r \in Range(aiReplyList[selectedAccount])

\* the AI-reply list has been read for the open conversation since it was
\* opened, and no request that sets the toggle is in flight
AIListLoaded ==
    /\ selectedConversation /= NoConversation
    /\ toggles = EmptyBag
    /\ toggleSeq.loaded = selectedConversation.room_id
    /\ \A l \in BagToSet(loads) : l.phase /= "ai"

\* C16: with the AI-reply list read for the open conversation and no toggle
\* request in flight, isAIEnabled is true exactly when the room of the
\* conversation is in enabledRoomsRef.
C16_ToggleAgreesWithList ==
    AIListLoaded =>
        (isAIEnabled <=> selectedConversation.room_id \in Range(enabledRoomsRef))

(***************************************************************************)
(* Claims about the messages shown and the conversation list.              *)
(***************************************************************************)
\* no loadMessages call, send, timeout or re-fetch of DialogPage is pending
NothingInFlight ==
    /\ loads = EmptyBag /\ sends = EmptyBag
    /\ refetchTimers = EmptyBag /\ refetches = EmptyBag

\* C15: once every request in flight has completed, none of them having
\* failed since the conversation was opened, the messages shown are the ones
\* fetched for the open conversation and the selected account.
C15_MessagesOfOpenConversation ==
    (selectedConversation /= NoConversation /\ NothingInFlight
         /\ ~messagesFor.failed) =>
        messagesFor = For(selectedConversation, selectedAccount)

\* C14: after an account button is clicked, the backend answering every
\* request, eventually isLoadingConversations is false and the conversation
\* list is the one fetched for the selected account; a user who never stops
\* clicking account buttons is left aside.
C14_LoadingConversationsEnds ==
    \/ []<>(last.op = "clickAccount")
    \/ (last.op = "clickAccount") ~>
           (/\ ~isLoadingConversations
            /\ last.op = "getConversationsOk"
            /\ last.account = selectedAccount)

====
